---- MODULE Spec2Model ----
(***************************************************************************)
(* Library catalog GraphQL backend (src/app.py, src/models.py).            *)
(*                                                                         *)
(* Two parts of the program are modelled:                                  *)
(*   - the store (tables authors, books) and the mutation resolvers        *)
(*     add_author / add_book, each run as an asyncio task that can be      *)
(*     interleaved with other requests at its await points (Spec, and      *)
(*     SeqSpec for histories in which requests do not overlap);            *)
(*   - the batch loaders that get_context() builds around                  *)
(*     load_author_by_book / load_books_by_author (LoaderSpec).            *)
(***************************************************************************)
EXTENDS Integers, Sequences, FiniteSets, TLC

(* ------------------------------ bounds --------------------------------- *)
\* requests received in one behaviour
MaxReq == 3
\* loader keys are 1..MaxKey
MaxKey == 2
\* load(key) calls in one behaviour, over the loaders of the context
MaxLoads == 3

Requests == 1..MaxReq
AuthorNames == {"Tolkien", "Rowling"}
BookNames == {"Hobbit"}
Keys == 1..MaxKey
Kinds == {"author_by_book", "books_by_author"}

(* --------------------------- Python values ----------------------------- *)
\* Optional[...]: None, or a value
None == [some |-> FALSE]
Some(v) == [some |-> TRUE, v |-> v]
\* `not x` for x : Optional[str]
Falsy(x) == (~x.some) \/ x.v = ""
AuthorNameArgs == {None, Some("")} \cup {Some(n) : n \in AuthorNames}

Raise(e) == [tag |-> "raise", exc |-> e]
Return(d) == [tag |-> "return", data |-> d]
Range(s) == {s[i] : i \in DOMAIN s}
NoDup(s) == \A i, j \in DOMAIN s : s[i] = s[j] => i = j

VARIABLES
    authors,   \* table authors: sequence of rows [id, name], in insertion order
    books,     \* table books: sequence of rows [id, name, author_id]
    pc,        \* per request: where its resolver coroutine is
    req,       \* per request: the operation and its arguments
    existing,  \* per request: add_author's existing_db_author
    result,    \* per request: what the resolver returned or raised
    ctx,       \* per request: the loader names in the request's context
    ctxs,      \* the dicts returned by the calls of get_context(), in order
    window,    \* per loader: keys passed to load() since its last dispatch
    log,       \* per loader: one entry per call of its load_fn
    nloads     \* number of load() calls so far

vars == <<authors, books, pc, req, existing, result, ctx, ctxs, window, log, nloads>>
storeVars == <<authors, books>>
reqVars == <<pc, req, existing, result, ctx>>
loaderVars == <<ctxs, window, log, nloads>>

\* the loaders of the first context built: <<context, name>>
Loaders == {1} \X Kinds

(* ------------------------------ the store ------------------------------ *)
\* Integer primary key: the next rowid of a table that never deletes
NextId(tbl) == Len(tbl) + 1

\* select(models.Author).where(models.Author.name == name) ... .first()
select_author_by_name_none(tbl, name) == None
select_author_by_name(tbl, name) ==
    LET hits == SelectSeq(tbl, LAMBDA a : a.name = name)
    IN  IF hits = <<>> THEN None ELSE hits[1]

HasAuthorNamed(tbl, name) == \E i \in DOMAIN tbl : tbl[i].name = name
HasAuthorId(tbl, id) == \E i \in DOMAIN tbl : tbl[i].id = id

(* ----------------------------- marshalling ----------------------------- *)
Author_marshal(model) == [tag |-> "Author", id |-> ToString(model.id), name |-> model.name]

\* model.author is the relationship over author_id
Book_author(tbl, model) ==
    IF ~model.author_id.some THEN None
    ELSE LET hits == SelectSeq(tbl, LAMBDA a : a.id = model.author_id.v)
         IN  IF hits = <<>> THEN None ELSE hits[1]

Book_marshal(tbl, model) ==
    [tag |-> "Book", id |-> ToString(model.id), name |-> model.name,
     author |-> IF Book_author(tbl, model) = None THEN None
                ELSE Author_marshal(Book_author(tbl, model))]

AuthorExists == [tag |-> "AuthorExists"]
AuthorNotFound == [tag |-> "AuthorNotFound"]
AuthorNameMissing == [tag |-> "AuthorNameMissing"]

(* ------------------------------ sessions ------------------------------- *)
\* get_session is an @asynccontextmanager: the object it returns has
\* __aenter__/__aexit__ and no __enter__/__exit__
get_session == [protocol |-> "async"]

\* entering a context manager with `with` or with `async with`
EnterContext(stmt, cm) ==
    IF stmt = "async with" THEN cm.protocol = "async" ELSE cm.protocol = "sync"

\* a value the driver can bind to an Integer column: an int or NULL
Bindable(v) == "some" \in DOMAIN v

(* ------------------------- Mutation.add_book --------------------------- *)
\* add_book as it would be with the session entered and the Book written
\* without the author checks: an unknown author leaves a dangling author_id
add_book_run_unchecked(tbl_authors, tbl_books, name, author_name) ==
    IF Falsy(author_name)
    THEN [result |-> AuthorNameMissing, books |-> tbl_books]
    ELSE LET db_author == select_author_by_name(tbl_authors, author_name.v)
             db_book == [id |-> NextId(tbl_books), name |-> name,
                         author_id |-> IF db_author = None THEN Some(0)
                                       ELSE Some(db_author.id)]
         IN  [result |-> Book_marshal(tbl_authors, db_book),
              books |-> Append(tbl_books, db_book)]

\* The whole resolver. It has no await before `with models.get_session()`,
\* and that statement raises: the result is the exception, whatever the
\* arguments. The rest of the body is what would run if the session opened.
add_book_run(tbl_authors, tbl_books, name, author_name) ==
    IF ~EnterContext("with", get_session)
    THEN [result |-> Raise("TypeError"), books |-> tbl_books]
    ELSE IF Falsy(author_name)
    THEN [result |-> AuthorNameMissing, books |-> tbl_books]
    ELSE LET db_author == select_author_by_name(tbl_authors, author_name.v)
         IN  IF db_author = None
             THEN [result |-> AuthorNotFound, books |-> tbl_books]
             ELSE LET db_book == [id |-> NextId(tbl_books), name |-> name,
                                  author_id |-> db_author]
                  IN  IF ~Bindable(db_book.author_id)
                      THEN [result |-> Raise("InterfaceError"), books |-> tbl_books]
                      ELSE [result |-> Book_marshal(tbl_authors, db_book),
                            books |-> Append(tbl_books, db_book)]

(* --------------------------- the bulk loaders -------------------------- *)
\* The truth value of `key == models.Author.id`: the comparison builds a SQL
\* expression, whose bool() compares the hashes of its two operands
BoolOfColumnEq(key) == FALSE

\* `models.Author.id in keys`, evaluated by Python before the query is built
Author_id_in(keys) == \E i \in DOMAIN keys : BoolOfColumnEq(keys[i])

\* load_books_by_author that answers a failed fetch with empty lists
load_books_by_author_swallow(keys, io) ==
    Return([i \in DOMAIN keys |->
              IF io = "fail" THEN <<>>
              ELSE SelectSeq(books, LAMBDA b : b.author_id = Some(keys[i]))])

\* one SELECT per key, in the order of the keys; io is whether the store
\* answers or fails. Nothing catches a failure.
load_books_by_author(keys, io) ==
    IF io = "fail" THEN Raise("StoreError")
    ELSE Return([i \in DOMAIN keys |->
                   SelectSeq(books, LAMBDA b : b.author_id = Some(keys[i]))])

\* one SELECT whose WHERE clause is the constant Author_id_in(keys); an
\* empty answer is turned into a list holding one empty list
load_author_by_book(keys, io) ==
    IF io = "fail" THEN Raise("StoreError")
    ELSE LET data == IF Author_id_in(keys) THEN authors ELSE <<>>
         IN  Return(IF data = <<>> THEN << <<>> >> ELSE data)

call_load_fn(fn, keys, io) ==
    IF fn = "load_author_by_book" THEN load_author_by_book(keys, io)
    ELSE load_books_by_author(keys, io)

Pending == [tag |-> "pending"]
Result(v) == [tag |-> "result", value |-> v]
Exception(e) == [tag |-> "exception", exc |-> e]

\* DataLoader(load_fn=...): no batch yet, an empty cache, and the
\* constructor's defaults (cache on, no max_batch_size: 0 stands for None)
DataLoader(load_fn) ==
    [load_fn |-> load_fn, max_batch_size |-> 0, cache |-> TRUE,
     batches |-> <<>>, cache_map |-> {}]

NewBatch == [tasks |-> <<>>, dispatched |-> FALSE, fetch |-> "none"]

should_create_new_batch(L, batch) ==
    \/ batch.dispatched
    \/ (L.max_batch_size # 0 /\ Len(batch.tasks) >= L.max_batch_size)

\* the loader's current batch is the last of L.batches; a new batch comes
\* with its dispatch scheduled on the event loop
get_current_batch(L) ==
    IF L.batches # <<>> /\ ~should_create_new_batch(L, L.batches[Len(L.batches)])
    THEN L
    ELSE [L EXCEPT !.batches = Append(@, NewBatch)]

\* DataLoader.load: a cached key gets its earlier future and joins no batch
DataLoader_load(L, key) ==
    IF L.cache /\ key \in L.cache_map
    THEN L
    ELSE LET L1 == IF L.cache THEN [L EXCEPT !.cache_map = @ \cup {key}] ELSE L
             L2 == get_current_batch(L1)
             n == Len(L2.batches)
         IN  [L2 EXCEPT !.batches[n].tasks = Append(@, [key |-> key, future |-> Pending])]

BatchKeys(batch) == [i \in DOMAIN batch.tasks |-> batch.tasks[i].key]

\* dispatch_batch after load_fn: an exception, or a list of another length
\* than the batch, fails every future; else each task gets its value
SetFutures(batch, ret) ==
    LET outcome(i) ==
            IF ret.tag = "raise" THEN Exception(ret.exc)
            ELSE IF Len(ret.data) # Len(batch.tasks)
                 THEN Exception("WrongNumberOfResultsReturned")
                 ELSE Result(ret.data[i])
    IN  [i \in DOMAIN batch.tasks |-> [key |-> batch.tasks[i].key, future |-> outcome(i)]]

\* the same, with every loader built without its cache
get_context_uncached ==
    [k \in Kinds |->
        [DataLoader(IF k = "author_by_book" THEN "load_author_by_book"
                    ELSE "load_books_by_author") EXCEPT !.cache = FALSE]]

\* a dict of two new loaders
get_context ==
    [k \in Kinds |->
        DataLoader(IF k = "author_by_book" THEN "load_author_by_book"
                   ELSE "load_books_by_author")]

Live == {l \in Loaders : l[1] <= Len(ctxs)}
LoaderOf(l) == ctxs[l[1]][l[2]]

\* a caller awaits loader.load(key)
load(l, key) ==
    /\ l \in Live
    /\ nloads < MaxLoads
    /\ nloads' = nloads + 1
    /\ ctxs' = [ctxs EXCEPT ![l[1]][l[2]] = DataLoader_load(@, key)]
    /\ window' = [window EXCEPT ![l] = @ \cup {key}]
    /\ UNCHANGED <<log, storeVars, reqVars>>

\* the event loop runs the scheduled dispatch of the loader's oldest
\* undispatched batch, up to the await inside load_fn
dispatch_batch(l) ==
    /\ l \in Live
    /\ \E i \in DOMAIN LoaderOf(l).batches :
        /\ ~LoaderOf(l).batches[i].dispatched
        /\ \A j \in 1..(i - 1) : LoaderOf(l).batches[j].dispatched
        /\ ctxs' = [ctxs EXCEPT ![l[1]][l[2]].batches[i].dispatched = TRUE]
        /\ log' = [log EXCEPT ![l] = Append(@, [loaded |-> window[l],
                                                keys |-> BatchKeys(LoaderOf(l).batches[i])])]
    /\ window' = [window EXCEPT ![l] = {}]
    /\ UNCHANGED <<nloads, storeVars, reqVars>>

\* load_fn ends (the store answered or failed) and the futures are set
dispatch_batch_done(l, i, io) ==
    /\ l \in Live
    /\ i \in DOMAIN LoaderOf(l).batches
    /\ LoaderOf(l).batches[i].dispatched
    /\ LoaderOf(l).batches[i].fetch = "none"
    /\ LET batch == LoaderOf(l).batches[i]
           ret == call_load_fn(LoaderOf(l).load_fn, BatchKeys(batch), io)
       IN  ctxs' = [ctxs EXCEPT ![l[1]][l[2]].batches[i] =
                        [@ EXCEPT !.tasks = SetFutures(batch, ret), !.fetch = io]]
    /\ UNCHANGED <<window, log, nloads, storeVars, reqVars>>

(* ------------------------------ requests ------------------------------- *)
\* GraphQLRouter(schema): no context_getter is passed
graphql_app == [schema |-> "schema", context_getter |-> None]

InFlight(r) == pc[r] \notin {"idle", "done"}

\* the router receives a mutation, builds the request's context and starts
\* the resolver. The context holds loaders only if a context_getter is set:
\* then get_context() is called once for the request.
Receive(r, op, name, author_name) ==
    /\ pc[r] = "idle"
    /\ \A q \in Requests : q < r => pc[q] # "idle"
    /\ pc' = [pc EXCEPT ![r] = op]
    /\ req' = [req EXCEPT ![r] = [op |-> op, name |-> name, author_name |-> author_name]]
    /\ IF graphql_app.context_getter = Some("get_context")
       THEN /\ ctxs' = Append(ctxs, get_context)
            /\ ctx' = [ctx EXCEPT ![r] = {<<Len(ctxs) + 1, k>> : k \in Kinds}]
       ELSE /\ ctxs' = ctxs
            /\ ctx' = [ctx EXCEPT ![r] = {}]
    /\ UNCHANGED <<existing, result, storeVars, window, log, nloads>>

\* add_author up to its first await: the session opens and the SELECT runs
add_author_select(r) ==
    /\ pc[r] = "add_author"
    /\ EnterContext("async with", get_session)
    /\ existing' = [existing EXCEPT ![r] = select_author_by_name(authors, req[r].name)]
    /\ pc' = [pc EXCEPT ![r] = "add_author_selected"]
    /\ UNCHANGED <<req, result, ctx, storeVars, loaderVars>>

\* add_author after the SELECT: AuthorExists, or INSERT, COMMIT and marshal
add_author_commit(r) ==
    /\ pc[r] = "add_author_selected"
    /\ IF existing[r] # None
       THEN /\ result' = [result EXCEPT ![r] = AuthorExists]
            /\ authors' = authors
       ELSE LET db_author == [id |-> NextId(authors), name |-> req[r].name]
            IN  /\ authors' = Append(authors, db_author)
                /\ result' = [result EXCEPT ![r] = Author_marshal(db_author)]
    /\ pc' = [pc EXCEPT ![r] = "done"]
    /\ UNCHANGED <<req, existing, ctx, books, loaderVars>>

add_book(r) ==
    /\ pc[r] = "add_book"
    /\ LET out == add_book_run(authors, books, req[r].name, req[r].author_name)
       IN  /\ books' = out.books
           /\ result' = [result EXCEPT ![r] = out.result]
    /\ pc' = [pc EXCEPT ![r] = "done"]
    /\ UNCHANGED <<req, existing, ctx, authors, loaderVars>>

NoRequest == [op |-> "none", name |-> "", author_name |-> None]

LoaderInit ==
    /\ ctxs = <<>>
    /\ window = [l \in Loaders |-> {}]
    /\ log = [l \in Loaders |-> <<>>]
    /\ nloads = 0

RequestInit ==
    /\ pc = [r \in Requests |-> "idle"]
    /\ req = [r \in Requests |-> NoRequest]
    /\ existing = [r \in Requests |-> None]
    /\ result = [r \in Requests |-> None]
    /\ ctx = [r \in Requests |-> {}]

\* the tables as _async_main leaves them: dropped and created
Init ==
    /\ authors = <<>>
    /\ books = <<>>
    /\ RequestInit
    /\ LoaderInit

ReceiveAny(r) ==
    \/ \E n \in AuthorNames : Receive(r, "add_author", n, None)
    \/ \E n \in BookNames, a \in AuthorNameArgs : Receive(r, "add_book", n, a)

Next ==
    \E r \in Requests :
        \/ ReceiveAny(r)
        \/ add_author_select(r)
        \/ add_author_commit(r)
        \/ add_book(r)

Spec == Init /\ [][Next]_vars

\* histories in which a request is received only when no other is in flight
SeqNext ==
    \E r \in Requests :
        \/ (ReceiveAny(r) /\ \A q \in Requests : ~InFlight(q))
        \/ add_author_select(r)
        \/ add_author_commit(r)
        \/ add_book(r)

SeqSpec == Init /\ [][SeqNext]_vars

\* the stores the loaders are run against: authors as add_author leaves
\* them, and no book
InitStores == {<<>>, <<[id |-> 1, name |-> "Tolkien"]>>}

\* a caller has built one context with get_context()
LoaderSpecInit ==
    /\ authors \in InitStores
    /\ books = <<>>
    /\ RequestInit
    /\ ctxs = <<get_context>>
    /\ window = [l \in Loaders |-> {}]
    /\ log = [l \in Loaders |-> <<>>]
    /\ nloads = 0

LoaderNext ==
    \/ \E l \in Loaders, key \in Keys : load(l, key)
    \/ \E l \in Loaders : dispatch_batch(l)
    \/ \E l \in Loaders, i \in 1..MaxLoads, io \in {"ok", "fail"} : dispatch_batch_done(l, i, io)

LoaderSpec == LoaderSpecInit /\ [][LoaderNext]_vars

(* ------------------------------- claims -------------------------------- *)
DoneOp(r, op) == pc[r] = "done" /\ req[r].op = op
RowsNamed(n) == {i \in DOMAIN authors : authors[i].name = n}
DispatchedBatches(L) == {i \in DOMAIN L.batches : L.batches[i].dispatched}
LoadedBefore(l, i) == UNION {log[l][j].loaded : j \in 1..(i - 1)}

\* C1 as stated: each dispatch of a loader makes one call of its load_fn,
\* whose keys are exactly the distinct keys passed to load() since the
\* previous dispatch, and a dispatched batch takes no further key.
C1_CallKeysAreWindowKeys ==
    \A l \in Live :
        /\ Len(log[l]) = Cardinality(DispatchedBatches(LoaderOf(l)))
        /\ \A i \in DOMAIN log[l] :
            /\ NoDup(log[l][i].keys)
            /\ Range(log[l][i].keys) = log[l][i].loaded
            /\ BatchKeys(LoaderOf(l).batches[i]) = log[l][i].keys

\* C1 amended: each dispatch of a loader makes one call of its load_fn,
\* whose keys are, without repetition, the keys passed to load() since the
\* previous dispatch that were never passed to this loader before (the
\* others are served from its cache), and a dispatched batch takes no
\* further key.
C1_CallKeysAreWindowMisses ==
    \A l \in Live :
        /\ Len(log[l]) = Cardinality(DispatchedBatches(LoaderOf(l)))
        /\ \A i \in DOMAIN log[l] :
            /\ NoDup(log[l][i].keys)
            /\ Range(log[l][i].keys) = log[l][i].loaded \ LoadedBefore(l, i)
            /\ BatchKeys(LoaderOf(l).batches[i]) = log[l][i].keys

\* a loader's second call got key 2 alone although keys 1 and 2 were loaded
\* in its window: key 1 had been loaded, and fetched, in the first window
C1_Witness ==
    \E l \in Live :
        /\ Len(log[l]) = 2
        /\ log[l][1].keys = <<1>>
        /\ log[l][2].loaded = {1, 2}
        /\ log[l][2].keys = <<2>>

\* C2: of the add_author calls for one name, at most one returns an Author
\* and at most one row of that name exists.
C2_OneAuthorPerName ==
    \A n \in AuthorNames :
        /\ Cardinality(RowsNamed(n)) <= 1
        /\ Cardinality({r \in Requests : /\ DoneOp(r, "add_author")
                                         /\ req[r].name = n
                                         /\ result[r].tag = "Author"}) <= 1

\* the store has a row for the key of a loader: for books_by_author a Book
\* of that author, for author_by_book an Author of that id
HasEntry(kind, key) ==
    IF kind = "books_by_author"
    THEN \E i \in DOMAIN books : books[i].author_id = Some(key)
    ELSE HasAuthorId(authors, key)

\* C3: when the store answered, a load whose key has no row resolves to the
\* empty value, never to an error.
C3_MissingKeyResolvesEmpty ==
    \A l \in Live :
        \A i \in DOMAIN LoaderOf(l).batches :
            LoaderOf(l).batches[i].fetch = "ok" =>
                \A t \in DOMAIN LoaderOf(l).batches[i].tasks :
                    LET task == LoaderOf(l).batches[i].tasks[t]
                    IN  ~HasEntry(l[2], task.key) => task.future = Result(<<>>)

\* C4: when the store failed under a batch, every load of the batch ends
\* with that failure; none is resolved with a value.
C4_FailedBatchFailsEveryLoad ==
    \A l \in Live :
        \A i \in DOMAIN LoaderOf(l).batches :
            LoaderOf(l).batches[i].fetch = "fail" =>
                \A t \in DOMAIN LoaderOf(l).batches[i].tasks :
                    LoaderOf(l).batches[i].tasks[t].future = Exception("StoreError")

\* the store failed under a batch of two keys of books_by_author, and both
\* loads ended with the failure
C4_Witness ==
    \E l \in Live :
        /\ l[2] = "books_by_author"
        /\ \E i \in DOMAIN LoaderOf(l).batches :
            /\ LoaderOf(l).batches[i].fetch = "fail"
            /\ Len(LoaderOf(l).batches[i].tasks) = 2
            /\ \A t \in 1..2 : LoaderOf(l).batches[i].tasks[t].future.tag = "exception"

\* C5: every request received has a loader of each name in its context, and
\* no loader is in the context of two requests.
C5_EachRequestOwnLoaders ==
    \A r \in Requests :
        pc[r] # "idle" =>
            /\ \A k \in Kinds : \E l \in ctx[r] : l[2] = k
            /\ \A q \in Requests \ {r} : ctx[q] \cap ctx[r] = {}

\* C6: in a history without overlapping requests, the step that ends
\* add_author(name) returns AuthorExists and leaves the store as it is when
\* a row of that name exists, and else appends one row of that name with a
\* new id and returns it marshalled.
C6_AddAuthorSequential ==
    [][\A r \in Requests :
         (pc[r] = "add_author_selected" /\ pc'[r] = "done") =>
            /\ books' = books
            /\ IF HasAuthorNamed(authors, req[r].name)
               THEN result'[r] = AuthorExists /\ authors' = authors
               ELSE /\ ~HasAuthorId(authors, Len(authors) + 1)
                    /\ authors' = Append(authors, [id |-> Len(authors) + 1,
                                                   name |-> req[r].name])
                    /\ result'[r] = [tag |-> "Author",
                                     id |-> ToString(Len(authors) + 1),
                                     name |-> req[r].name]]_vars

\* add_author("Tolkien") twice: the first returned the Author, the second
\* AuthorExists, and one row is stored
C6_Witness ==
    /\ DoneOp(1, "add_author") /\ DoneOp(2, "add_author")
    /\ req[1].name = "Tolkien" /\ req[2].name = "Tolkien"
    /\ result[1] = [tag |-> "Author", id |-> "1", name |-> "Tolkien"]
    /\ result[2] = AuthorExists
    /\ authors = <<[id |-> 1, name |-> "Tolkien"]>>

\* C7: the step that runs add_book(name, A) with an author named A stored
\* appends one Book whose author_id is that author's id and returns the
\* Book with its author field holding name A.
C7_AddBookLinksAuthor ==
    [][\A r \in Requests :
         (/\ pc[r] = "add_book" /\ pc'[r] = "done"
          /\ ~Falsy(req[r].author_name)
          /\ HasAuthorNamed(authors, req[r].author_name.v)) =>
            /\ books' = Append(books,
                   [id |-> Len(books) + 1, name |-> req[r].name,
                    author_id |-> Some(select_author_by_name(authors, req[r].author_name.v).id)])
            /\ result'[r].tag = "Book"
            /\ result'[r].author.name = req[r].author_name.v]_vars

\* C8: the step that runs add_book with an absent or empty author name
\* returns AuthorNameMissing and leaves the books as they are.
C8_AddBookNameMissing ==
    [][\A r \in Requests :
         (pc[r] = "add_book" /\ pc'[r] = "done" /\ Falsy(req[r].author_name)) =>
            /\ result'[r] = AuthorNameMissing
            /\ books' = books]_vars

\* C9: the step that runs add_book with a name no stored author has returns
\* AuthorNotFound and leaves the books as they are.
C9_AddBookAuthorNotFound ==
    [][\A r \in Requests :
         (/\ pc[r] = "add_book" /\ pc'[r] = "done"
          /\ ~Falsy(req[r].author_name)
          /\ ~HasAuthorNamed(authors, req[r].author_name.v)) =>
            /\ result'[r] = AuthorNotFound
            /\ books' = books]_vars

====
